---- MODULE Spec2Model ----
(***************************************************************************)
(* A model of the eBPF virtual machine of pkg/vm/vm.go and of the          *)
(* fetch/disassemble/execute loop of cmd/vm/main.go.                       *)
(*                                                                         *)
(* A uint64 is the set of its set bit positions (a subset of 0..63), so    *)
(* that every 64-bit pattern is representable and shifts, truncations and  *)
(* sign extensions are exact.  Bytes, the int16 offset and the int32       *)
(* immediate are integers.                                                 *)
(***************************************************************************)
EXTENDS Integers, Sequences, FiniteSets, TLC

\* ------------------------------------------------------------ constants
StackSize == 512
NumRegisters == 11

OpcodeADDIMM == 7
OpcodeLSHIMM == 103
OpcodeRSHIMM == 119
OpcodeARSHIMM == 199
OpcodeMOVDSTIMM == 183
OpcodeMOVDSTSRC == 191
OpcodeLDDW == 24
OpcodeLDXH == 105
OpcodeSTXH == 107
OpcodeSTXDW == 123
OpcodeCALL == 133
OpcodeEXIT == 149

LittleEndian == "LittleEndian"
BigEndian == "BigEndian"
ByteOrders == {LittleEndian, BigEndian}

\* ------------------------------------------------------ machine integers
RECURSIVE Pow2(_)
Pow2(n) == IF n = 0 THEN 1 ELSE 2 * Pow2(n - 1)

\* The bits 0..w-1 of a natural number x < 2^31.
BitsOf(x, w) == {i \in 0..(w - 1) : (x \div Pow2(i)) % 2 = 1}

\* The natural number whose set bits are S, for S within 0..30.
RECURSIVE ValueOf(_)
ValueOf(S) ==
    IF S = {} THEN 0
    ELSE LET i == CHOOSE x \in S : TRUE IN Pow2(i) + ValueOf(S \ {i})

\* uint64(x) with the int32 taken for a uint32: zero extension.
Uint64OfInt32Zero(x) ==
    IF x >= 0 THEN BitsOf(x, 31)
    ELSE BitsOf((x + Pow2(30)) + Pow2(30), 31) \cup {31}

\* uint64(x) for an int32 x: two's-complement sign extension.
Uint64OfInt32(x) ==
    IF x >= 0 THEN BitsOf(x, 31)
    ELSE BitsOf((x + Pow2(30)) + Pow2(30), 31) \cup (31..63)

\* uint64(x) for a uint16 x (zero extension).
Uint64OfUint16(x) == BitsOf(x, 16)

\* uint16(v) for a uint64 v: the low 16 bits, as a number.
Uint16OfUint64(v) == ValueOf(v \cap (0..15))

\* Byte k (0 = least significant) of a uint64.
ByteOf(v, k) == ValueOf({i - 8 * k : i \in v \cap ((8 * k)..(8 * k + 7))})

\* int64(v) for a uint64 v, saturated at +-2^30.  The only use is an address
\* to which an int16 offset is added and which is then compared with
\* 0..StackSize: beyond +-2^30 the sum, wrapped or not, is out of that range
\* on the same side or on the other, and out of range either way.
Int64(v) ==
    IF 63 \in v
    THEN IF (30..62) \subseteq v THEN ValueOf(v \cap (0..29)) - Pow2(30)
         ELSE 0 - Pow2(30)
    ELSE IF v \subseteq (0..29) THEN ValueOf(v) ELSE Pow2(30)

\* value << n on a uint64 with an int32 count n >= 0 (Go: a count >= 64
\* shifts every bit out).
Lsh(v, n) == IF n >= 64 THEN {} ELSE {i + n : i \in v} \cap (0..63)

\* value >> n on a uint64 with an int32 count n >= 0.
Rsh(v, n) == IF n >= 64 THEN {} ELSE {i - n : i \in v} \cap (0..63)

\* Arsh with the conversion to int64 forgotten: a logical shift.
ArshUnsigned(v, n) == Rsh(v, n)

\* int64(value) >> n: the sign bit fills the vacated positions.
Arsh(v, n) ==
    LET sign == IF 63 \in v THEN (IF n >= 64 THEN 0..63 ELSE (64 - n)..63)
                ELSE {}
    IN Rsh(v, n) \cup sign

\* ---------------------------------------------------- encoding/binary
\* PutUint16 with the byte order ignored: always little-endian.
PutUint16Little(order, x) == <<x % 256, x \div 256>>

\* ByteOrder.PutUint16: the two bytes of a uint16, in stream order.
PutUint16(order, x) ==
    IF order = LittleEndian THEN <<x % 256, x \div 256>>
    ELSE <<x \div 256, x % 256>>

\* PutUint64 that ignores the byte order: always least significant first.
PutUint64Little(order, v) == [k \in 1..8 |-> ByteOf(v, k - 1)]

\* ByteOrder.PutUint64: the eight bytes of a uint64, in stream order.
PutUint64(order, v) ==
    IF order = LittleEndian THEN [k \in 1..8 |-> ByteOf(v, k - 1)]
    ELSE [k \in 1..8 |-> ByteOf(v, 8 - k)]

\* ByteOrder.Uint16: the uint16 held by two bytes.
Uint16(order, b) ==
    IF order = LittleEndian THEN b[1] + 256 * b[2] ELSE b[2] + 256 * b[1]

\* The int16 held by two bytes.
Int16(order, b) ==
    LET u == Uint16(order, b) IN IF u >= 32768 THEN u - 65536 ELSE u

\* The int32 held by four bytes.
Int32(order, b) ==
    LET m == IF order = LittleEndian THEN <<b[4], b[3], b[2], b[1]>> ELSE b
        top == IF m[1] >= 128 THEN m[1] - 256 ELSE m[1]
    IN top * 16777216 + m[2] * 65536 + m[3] * 256 + m[4]

\* binary.Read into an Instruction: the fields in declaration order.
ReadInstruction(order, b) ==
    [Opcode |-> b[1],
     DstSrc |-> b[2],
     Offset |-> Int16(order, <<b[3], b[4]>>),
     Immediate |-> Int32(order, <<b[5], b[6], b[7], b[8]>>)]

\* --------------------------------------------------------------- the VM
Registers == 0..(NumRegisters - 1)
Nil == "nil"
ErrExit == "exit"
ErrEOF == "EOF"
ErrUnexpectedEOF == "unexpected EOF"
PanicRegister == "panic: Invalid register"
PanicBounds == "panic: runtime error: slice bounds out of range"
PanicShift == "panic: runtime error: negative shift amount"
Panics == {PanicRegister, PanicBounds, PanicShift}

\* The opcodes Execute has a case for.
Implemented ==
    {OpcodeEXIT, OpcodeSTXDW, OpcodeSTXH, OpcodeLDXH, OpcodeMOVDSTIMM,
     OpcodeLSHIMM, OpcodeRSHIMM, OpcodeARSHIMM}

getSrc(order, i) ==
    IF order = LittleEndian THEN i.DstSrc \div 16 ELSE i.DstSrc % 16

\* getDst with the byte order ignored: always the low nibble.
getDstLow(order, i) == i.DstSrc % 16

getDst(order, i) ==
    IF order = LittleEndian THEN i.DstSrc % 16 ELSE i.DstSrc \div 16

\* The guard of getRegister and setRegister: no panic("Invalid register").
ValidRegister(i) == i < NumRegisters

getRegister(gpr, i) == gpr[i]

\* setRegister with the index dropped: every write lands in r0.
setRegisterZero(gpr, i, val) == [gpr EXCEPT ![0] = val]

setRegister(gpr, i, val) == [gpr EXCEPT ![i] = val]

\* vm.Stack[lo:] does not panic.
SliceFromOK(lo) == 0 <= lo /\ lo <= StackSize

\* vm.Stack[lo:hi] does not panic.
SliceOK(lo, hi) == 0 <= lo /\ lo <= hi /\ hi <= StackSize

\* copy(vm.Stack[start:], b): as many bytes of b as the slice has room for.
CopyToStack(stack, start, b) ==
    [a \in 0..(StackSize - 1) |->
        IF a >= start /\ a - start < Len(b) THEN b[a - start + 1] ELSE stack[a]]

\* What a call of Execute leaves behind: the registers, the stack, and the
\* error it returns or the panic it ends in.
Outcome(gpr, stack, e) == [GPR |-> gpr, Stack |-> stack, err |-> e]

\* case OpcodeSTXDW, OpcodeSTXH: b holds the bytes of the source register.
ExecuteStore(gpr, stack, instr, src, dst, size, order) ==
    IF ~ValidRegister(src) \/ ~ValidRegister(dst)
    THEN Outcome(gpr, stack, PanicRegister)
    ELSE LET value == getRegister(gpr, src)
             b == IF size = 8 THEN PutUint64(order, value)
                  ELSE PutUint16(order, Uint16OfUint64(value))
             start == Int64(getRegister(gpr, dst)) + instr.Offset
         IN IF ~SliceFromOK(start) THEN Outcome(gpr, stack, PanicBounds)
            ELSE Outcome(gpr, CopyToStack(stack, start, b), Nil)

\* ExecuteLoad without the bounds check of the slice expression: bytes
\* outside the stack read as zero and nothing panics.
ExecuteLoadUnchecked(gpr, stack, instr, src, dst, order) ==
    IF ~ValidRegister(src) \/ ~ValidRegister(dst)
    THEN Outcome(gpr, stack, PanicRegister)
    ELSE LET start == Int64(getRegister(gpr, src)) + instr.Offset
             byte(a) == IF a \in 0..(StackSize - 1) THEN stack[a] ELSE 0
             value == Uint16(order, <<byte(start), byte(start + 1)>>)
         IN Outcome(setRegister(gpr, dst, Uint64OfUint16(value)), stack, Nil)

\* case OpcodeLDXH.
ExecuteLoad(gpr, stack, instr, src, dst, order) ==
    IF ~ValidRegister(src) THEN Outcome(gpr, stack, PanicRegister)
    ELSE LET start == Int64(getRegister(gpr, src)) + instr.Offset
         IN IF ~SliceOK(start, start + 2) THEN Outcome(gpr, stack, PanicBounds)
            ELSE IF ~ValidRegister(dst) THEN Outcome(gpr, stack, PanicRegister)
            ELSE LET value == Uint16(order, <<stack[start], stack[start + 1]>>)
                 IN Outcome(setRegister(gpr, dst, Uint64OfUint16(value)),
                            stack, Nil)

\* case OpcodeLSHIMM, OpcodeRSHIMM, OpcodeARSHIMM.
ExecuteShift(gpr, stack, instr, dst) ==
    IF ~ValidRegister(dst) THEN Outcome(gpr, stack, PanicRegister)
    ELSE IF instr.Immediate < 0 THEN Outcome(gpr, stack, PanicShift)
    ELSE LET value == getRegister(gpr, dst)
             n == instr.Immediate
             shifted == CASE instr.Opcode = OpcodeLSHIMM -> Lsh(value, n)
                          [] instr.Opcode = OpcodeRSHIMM -> Rsh(value, n)
                          [] OTHER -> Arsh(value, n)
         IN Outcome(setRegister(gpr, dst, shifted), stack, Nil)

\* Execute with mov taking the src register as its operand, as the comment
\* on BPFK reads.
ExecuteInstrRegisterOperand(order, gpr, stack, instr) ==
    LET src == getSrc(order, instr)
        dst == getDst(order, instr)
    IN CASE instr.Opcode = OpcodeEXIT -> Outcome(gpr, stack, ErrExit)
         [] instr.Opcode = OpcodeSTXDW ->
                ExecuteStore(gpr, stack, instr, src, dst, 8, order)
         [] instr.Opcode = OpcodeSTXH ->
                ExecuteStore(gpr, stack, instr, src, dst, 2, order)
         [] instr.Opcode = OpcodeLDXH ->
                ExecuteLoad(gpr, stack, instr, src, dst, order)
         [] instr.Opcode = OpcodeMOVDSTIMM ->
                IF ~ValidRegister(dst) \/ ~ValidRegister(src)
                THEN Outcome(gpr, stack, PanicRegister)
                ELSE Outcome(setRegister(gpr, dst, getRegister(gpr, src)),
                             stack, Nil)
         [] instr.Opcode \in {OpcodeLSHIMM, OpcodeRSHIMM, OpcodeARSHIMM} ->
                ExecuteShift(gpr, stack, instr, dst)
         [] OTHER -> Outcome(gpr, stack, Nil)

\* VM.Execute.
ExecuteInstr(order, gpr, stack, instr) ==
    LET src == getSrc(order, instr)
        dst == getDst(order, instr)
    IN CASE instr.Opcode = OpcodeEXIT -> Outcome(gpr, stack, ErrExit)
         [] instr.Opcode = OpcodeSTXDW ->
                ExecuteStore(gpr, stack, instr, src, dst, 8, order)
         [] instr.Opcode = OpcodeSTXH ->
                ExecuteStore(gpr, stack, instr, src, dst, 2, order)
         [] instr.Opcode = OpcodeLDXH ->
                ExecuteLoad(gpr, stack, instr, src, dst, order)
         [] instr.Opcode = OpcodeMOVDSTIMM ->
                IF ~ValidRegister(dst) THEN Outcome(gpr, stack, PanicRegister)
                ELSE Outcome(setRegister(gpr, dst, Uint64OfInt32(instr.Immediate)),
                             stack, Nil)
         [] instr.Opcode \in {OpcodeLSHIMM, OpcodeRSHIMM, OpcodeARSHIMM} ->
                ExecuteShift(gpr, stack, instr, dst)
         [] OTHER -> Outcome(gpr, stack, Nil)

\* ------------------------------------------------------------ programs
\* The byte streams the runs are checked on are assembled from instructions:
\* up to MaxSetup moves into r1, one instruction under test, and at most one
\* instruction (or a truncated word) after it.
MaxSetup == 1

Ins(op, dst, src, off, imm) ==
    [op |-> op, dst |-> dst, src |-> src, off |-> off, imm |-> imm]

\* The four bytes of an int32, most significant first.
BytesOfInt32(x) ==
    LET u == IF x >= 0 THEN x ELSE (x + Pow2(30)) + Pow2(30)
        top == IF x >= 0 THEN u \div 16777216 ELSE u \div 16777216 + 128
    IN <<top, (u \div 65536) % 256, (u \div 256) % 256, u % 256>>

\* The 8-byte word of an instruction in the given byte order: opcode, the
\* two register nibbles, offset, immediate.
Encode(order, ins) ==
    LET o == IF ins.off >= 0 THEN ins.off ELSE ins.off + 65536
        off == IF order = LittleEndian THEN <<o % 256, o \div 256>>
               ELSE <<o \div 256, o % 256>>
        m == BytesOfInt32(ins.imm)
        imm == IF order = LittleEndian THEN <<m[4], m[3], m[2], m[1]>> ELSE m
        regs == IF order = LittleEndian THEN ins.dst + 16 * ins.src
                ELSE 16 * ins.dst + ins.src
    IN <<ins.op, regs>> \o off \o imm

SetupImmediates == {5, -8, 4660}
SetupWords == {Ins(OpcodeMOVDSTIMM, 1, 0, 0, imm) : imm \in SetupImmediates}

ShiftCounts == {0, 1, 4, 31, 32, 33, 63, 64, 65, -1, -64}
StoreOffsets == {-4, -2, -1, 0, 1, -8, -7, -512, -513}
UnsupportedOpcodes ==
    {OpcodeADDIMM, OpcodeMOVDSTSRC, OpcodeLDDW, OpcodeCALL, 0, 255}
RegisterBytes == {<<0, 0>>, <<15, 0>>, <<0, 15>>, <<15, 15>>, <<10, 5>>,
                  <<5, 10>>, <<11, 1>>, <<1, 11>>, <<2, 1>>}

\* Shifts that move the moved value into the upper half of the register.
PrepWords == {Ins(OpcodeLSHIMM, 1, 0, 0, n) : n \in {33, 61}}
ShiftWords ==
    {Ins(op, 1, 0, 0, n) :
        op \in {OpcodeLSHIMM, OpcodeRSHIMM, OpcodeARSHIMM}, n \in ShiftCounts}

TestWords ==
    {Ins(OpcodeMOVDSTIMM, d, 0, 0, imm) : d \in {2, 10}, imm \in {7, -2}}
    \cup ShiftWords
    \cup {Ins(op, 10, 0, 0, n) :
            op \in {OpcodeLSHIMM, OpcodeRSHIMM, OpcodeARSHIMM}, n \in {0, 1}}
    \cup {Ins(op, 10, 1, off, 0) :
            op \in {OpcodeSTXH, OpcodeSTXDW}, off \in StoreOffsets}
    \cup {Ins(op, 1, 1, off, 0) :
            op \in {OpcodeSTXH, OpcodeSTXDW}, off \in {-6, 0, 5}}
    \cup {Ins(OpcodeLDXH, 2, 10, off, 0) : off \in StoreOffsets}
    \cup {Ins(OpcodeLDXH, 2, 1, off, 0) : off \in {-6, 0, 5}}
    \cup {Ins(op, 1, 0, 0, 3) : op \in UnsupportedOpcodes}
    \cup {Ins(op, r[1], r[2], -4, 1) :
            op \in {OpcodeMOVDSTIMM, OpcodeSTXH, OpcodeLDXH, OpcodeEXIT},
            r \in RegisterBytes}

FollowWords ==
    {Ins(OpcodeEXIT, 0, 0, 0, 0), Ins(OpcodeLDXH, 2, 10, -4, 0),
     Ins(OpcodeLDXH, 2, 10, -2, 0), Ins(OpcodeLDXH, 2, 1, 5, 0)}

\* A load of a 64-bit immediate: the word with the low half and opcode
\* OpcodeLDDW, then the continuation word, zero but for the high half.
WideWords ==
    {<<Ins(OpcodeLDDW, 1, 0, 0, lo), Ins(0, 0, 0, 0, hi)>> :
        lo \in {3, -1}, hi \in {1, 0}}

\* A word cut short: fewer than 8 bytes left in the stream.
Truncated == <<OpcodeEXIT, 0, 0>>

RECURSIVE SetupSequences(_)
SetupSequences(n) ==
    IF n = 0 THEN {<<>>}
    ELSE SetupSequences(n - 1)
         \cup {<<w>> \o s : w \in SetupWords, s \in SetupSequences(n - 1)}

RECURSIVE Assemble(_, _)
Assemble(order, s) ==
    IF s = <<>> THEN <<>> ELSE Encode(order, Head(s)) \o Assemble(order, Tail(s))

Programs(order) ==
    {Assemble(order, s \o t) \o f :
        s \in SetupSequences(MaxSetup),
        t \in {<<>>} \cup {<<w>> : w \in TestWords},
        f \in {<<>>, Truncated} \cup {Encode(order, w) : w \in FollowWords}}
    \cup {Assemble(order, s \o <<p, t>>) :
            s \in SetupSequences(MaxSetup), p \in PrepWords, t \in ShiftWords}
    \cup {Assemble(order, s \o w \o f) :
            s \in SetupSequences(MaxSetup), w \in WideWords,
            f \in {<<>>, <<Ins(OpcodeEXIT, 0, 0, 0, 0)>>}}

\* Words after which the run goes on (mov, an unimplemented call) or stops:
\* exit, a negative shift count, a store and a load outside the stack.
StopWords ==
    {Ins(OpcodeMOVDSTIMM, 2, 0, 0, 7),
     Ins(OpcodeCALL, 1, 0, 0, 3),
     Ins(OpcodeEXIT, 15, 0, -4, 1),
     Ins(OpcodeLSHIMM, 1, 0, 0, -1),
     Ins(OpcodeSTXDW, 10, 1, 1, 0),
     Ins(OpcodeLDXH, 2, 10, -513, 0)}

\* The programs of Programs(order) whose runs stop in each of the ways a run
\* can stop: end of stream, a cut word, exit, a panic; with and without
\* words left over in the stream.
TerminationPrograms(order) ==
    {Assemble(order, s \o t) \o f :
        s \in SetupSequences(MaxSetup),
        t \in {<<>>} \cup {<<w>> : w \in StopWords},
        f \in {<<>>, Truncated, Encode(order, Ins(OpcodeEXIT, 0, 0, 0, 0))}}
    \cup {Assemble(order, s \o w \o f) :
            s \in SetupSequences(MaxSetup), w \in WideWords,
            f \in {<<>>, <<Ins(OpcodeEXIT, 0, 0, 0, 0)>>}}

\* ---------------------------------------------------------------- state
VARIABLES
    Endianness,    \* vm.Endianness, set once by main from -be
    GPR,           \* vm.GPR
    Stack,         \* vm.Stack
    program,       \* the bytes of the section handed to Load
    Program,       \* vm.Program: the reader's position in program
    PC,            \* vm.PC
    flagVerbose,   \* -v
    instruction,   \* main's instruction: the last one Fetch returned
    err,           \* the error or panic of the last Fetch or Execute
    loc            \* where main is: "fetch", "disassemble", "execute", "done"

vars == <<Endianness, GPR, Stack, program, Program, PC, flagVerbose,
          instruction, err, loc>>

\* The nil *Instruction: main's instruction before the first Fetch and after
\* a Fetch that fails.
NoInstruction == [Opcode |-> 0, DstSrc |-> 0, Offset |-> 0, Immediate |-> 0]

\* new(vm.VM), machine.Endianness = endianness, machine.Load(reader).
Init ==
    /\ Endianness \in ByteOrders
    /\ GPR = [r \in Registers |-> IF r = 10 THEN BitsOf(StackSize, 16) ELSE {}]
    /\ Stack = [a \in 0..(StackSize - 1) |-> 0]
    /\ program \in Programs(Endianness)
    /\ Program = 0
    /\ PC = 0
    /\ flagVerbose \in BOOLEAN
    /\ instruction = NoInstruction
    /\ err = Nil
    /\ loc = "fetch"

\* Fetch with vm.PC++ moved before the test of the read error: a failed
\* read counts as an instruction.
FetchCountingFirst ==
    /\ loc = "fetch"
    /\ PC' = PC + 1
    /\ LET left == Len(program) - Program IN
       IF left < 8
       THEN /\ err' = IF left = 0 THEN ErrEOF ELSE ErrUnexpectedEOF
            /\ Program' = Len(program)
            /\ loc' = "done"
            /\ instruction' = NoInstruction
       ELSE /\ instruction' =
                  ReadInstruction(Endianness,
                                  SubSeq(program, Program + 1, Program + 8))
            /\ Program' = Program + 8
            /\ err' = Nil
            /\ loc' = IF flagVerbose THEN "disassemble" ELSE "execute"
    /\ UNCHANGED <<Endianness, GPR, Stack, program, flagVerbose>>

\* Fetch on a reader that is not advanced by a successful read: the same
\* word is fetched again and again.
FetchPeeking ==
    /\ loc = "fetch"
    /\ LET left == Len(program) - Program IN
       IF left < 8
       THEN /\ err' = IF left = 0 THEN ErrEOF ELSE ErrUnexpectedEOF
            /\ Program' = Len(program)
            /\ loc' = "done"
            /\ instruction' = NoInstruction
            /\ UNCHANGED PC
       ELSE /\ instruction' =
                  ReadInstruction(Endianness,
                                  SubSeq(program, Program + 1, Program + 8))
            /\ Program' = Program
            /\ PC' = PC + 1
            /\ err' = Nil
            /\ loc' = IF flagVerbose THEN "disassemble" ELSE "execute"
    /\ UNCHANGED <<Endianness, GPR, Stack, program, flagVerbose>>

\* instruction, err := machine.Fetch(); log.Fatal(err) on an error.
\* binary.Read fills 8 bytes with io.ReadFull, which consumes what is left
\* of a short stream before it reports the error.
Fetch ==
    /\ loc = "fetch"
    /\ LET left == Len(program) - Program IN
       IF left < 8
       THEN /\ err' = IF left = 0 THEN ErrEOF ELSE ErrUnexpectedEOF
            /\ Program' = Len(program)
            /\ loc' = "done"
            /\ instruction' = NoInstruction
            /\ UNCHANGED PC
       ELSE /\ instruction' =
                  ReadInstruction(Endianness,
                                  SubSeq(program, Program + 1, Program + 8))
            /\ Program' = Program + 8
            /\ PC' = PC + 1
            /\ err' = Nil
            /\ loc' = IF flagVerbose THEN "disassemble" ELSE "execute"
    /\ UNCHANGED <<Endianness, GPR, Stack, program, flagVerbose>>

\* Disassemble that also steps the program counter.
DisassembleCounting ==
    /\ loc = "disassemble"
    /\ loc' = "execute"
    /\ PC' = PC + 1
    /\ UNCHANGED <<Endianness, GPR, Stack, program, Program, flagVerbose,
                   instruction, err>>

\* Disassemble that uses up the instruction it prints: Execute is handed an
\* empty one.
DisassembleConsuming ==
    /\ loc = "disassemble"
    /\ loc' = "execute"
    /\ instruction' = NoInstruction
    /\ UNCHANGED <<Endianness, GPR, Stack, program, Program, PC, flagVerbose,
                   err>>

\* if *flagVerbose { machine.Disassemble(instruction) }: prints, and reads
\* the instruction and the byte order only.
Disassemble ==
    /\ loc = "disassemble"
    /\ loc' = "execute"
    /\ UNCHANGED <<Endianness, GPR, Stack, program, Program, PC, flagVerbose,
                   instruction, err>>

\* Execute with the returned error dropped by main: the loop goes on after
\* an exit (a panic still ends the process).
ExecuteContinuing ==
    /\ loc = "execute"
    /\ LET out == ExecuteInstr(Endianness, GPR, Stack, instruction) IN
       /\ GPR' = out.GPR
       /\ Stack' = out.Stack
       /\ err' = out.err
       /\ loc' = IF out.err \in Panics THEN "done" ELSE "fetch"
    /\ UNCHANGED <<Endianness, program, Program, PC, flagVerbose, instruction>>

\* if err := machine.Execute(instruction); err != nil { log.Fatal(err) }.
\* A panic ends the process as well.
Execute ==
    /\ loc = "execute"
    /\ LET out == ExecuteInstr(Endianness, GPR, Stack, instruction) IN
       /\ GPR' = out.GPR
       /\ Stack' = out.Stack
       /\ err' = out.err
       /\ loc' = IF out.err = Nil THEN "fetch" ELSE "done"
    /\ UNCHANGED <<Endianness, program, Program, PC, flagVerbose, instruction>>

Next == Fetch \/ Disassemble \/ Execute

\* main's test of what Fetch and Execute return: err != nil is log.Fatal.
Fatal(e) == e # Nil

\* The status the process ends with: log.Fatal is os.Exit(1), a panic that
\* nothing recovers ends the process with status 2.
ExitStatus(e) == IF e \in Panics THEN 2 ELSE IF Fatal(e) THEN 1 ELSE 0

Spec == Init /\ [][Next]_vars

\* main is one sequential process: as long as a call of the loop is left to
\* make, it is made.  The runs are those of TerminationPrograms.
FairInit ==
    /\ Endianness \in ByteOrders
    /\ GPR = [r \in Registers |-> IF r = 10 THEN BitsOf(StackSize, 16) ELSE {}]
    /\ Stack = [a \in 0..(StackSize - 1) |-> 0]
    /\ program \in TerminationPrograms(Endianness)
    /\ Program = 0
    /\ PC = 0
    /\ flagVerbose \in BOOLEAN
    /\ instruction = NoInstruction
    /\ err = Nil
    /\ loc = "fetch"

FairSpec == FairInit /\ [][Next]_vars /\ WF_vars(Next)

\* --------------------------------------------------------------- claims
\* The registers the instruction main holds names, and the address its
\* memory access starts at.
Dst == getDst(Endianness, instruction)
Src == getSrc(Endianness, instruction)
StoreStart == Int64(GPR[Dst]) + instruction.Offset
LoadStart == Int64(GPR[Src]) + instruction.Offset
StoreSize == IF instruction.Opcode = OpcodeSTXDW THEN 8 ELSE 2

\* The instruction fetched before the one main holds.
PreviousInstruction ==
    ReadInstruction(Endianness, SubSeq(program, Program - 15, Program - 8))

\* C1: executing mov-imm, lsh, rsh or arsh with destination register 10
\* raises a fault and leaves GPR[10] as it was.
C1_FramePointerImmutable ==
    [][(/\ loc = "execute"
        /\ instruction.Opcode \in
             {OpcodeMOVDSTIMM, OpcodeLSHIMM, OpcodeRSHIMM, OpcodeARSHIMM}
        /\ Dst = 10)
       => (err' \in Panics /\ GPR'[10] = GPR[10])]_vars

\* C2: executing stxh or stxdw whose start address is >= StackSize or < 0
\* raises a memory-bounds fault and writes no stack byte.
C2_StoreBoundsFault ==
    [][(/\ loc = "execute"
        /\ instruction.Opcode \in {OpcodeSTXH, OpcodeSTXDW}
        /\ ValidRegister(Dst) /\ ValidRegister(Src)
        /\ (StoreStart >= StackSize \/ StoreStart < 0))
       => (err' = PanicBounds /\ Stack' = Stack)]_vars

\* C3: executing stxh or stxdw whose start address is inside the stack but
\* whose last byte is not is a fault, and no part of the value is written.
C3_NoTruncatedStore ==
    [][(/\ loc = "execute"
        /\ instruction.Opcode \in {OpcodeSTXH, OpcodeSTXDW}
        /\ ValidRegister(Dst) /\ ValidRegister(Src)
        /\ 0 <= StoreStart /\ StoreStart < StackSize
        /\ StoreStart + StoreSize > StackSize)
       => (err' \in Panics /\ Stack' = Stack)]_vars

\* C4: executing ldxh whose two bytes are not both inside the stack raises a
\* fault and changes no register.
C4_LoadBoundsFault ==
    [][(/\ loc = "execute"
        /\ instruction.Opcode = OpcodeLDXH
        /\ ValidRegister(Src)
        /\ ~(0 <= LoadStart /\ LoadStart + 2 <= StackSize))
       => (err' \in Panics /\ loc' = "done" /\ GPR' = GPR)]_vars

\* C4 happens: a run ended by the panic of an ldxh that reads across the
\* top of the stack.
C4_Witness ==
    /\ loc = "done" /\ err = PanicBounds
    /\ instruction.Opcode = OpcodeLDXH
    /\ ValidRegister(Src)
    /\ LoadStart = StackSize - 1

\* C5: stxh [base+off], rs followed by ldxh rd, [base+off], both bytes
\* inside the stack, leaves in rd the low 16 bits of rs (rs itself when it
\* holds a 16-bit value), in either byte order.
C5_StoreLoadSymmetry ==
    [][(/\ loc = "execute"
        /\ Program >= 16
        /\ instruction.Opcode = OpcodeLDXH
        /\ PreviousInstruction.Opcode = OpcodeSTXH
        /\ getDst(Endianness, PreviousInstruction) = Src
        /\ PreviousInstruction.Offset = instruction.Offset
        /\ ValidRegister(Src) /\ ValidRegister(Dst)
        /\ ValidRegister(getSrc(Endianness, PreviousInstruction))
        /\ 0 <= LoadStart /\ LoadStart + 2 <= StackSize)
       => (/\ err' = Nil
           /\ GPR'[Dst] =
                GPR[getSrc(Endianness, PreviousInstruction)] \cap (0..15))]_vars

\* C5 happens: mov r1, 0x1234; stxh [r10-4], r1; ldxh r2, [r10-4] has run
\* on a big-endian machine and r2 holds 0x1234.
C5_Witness ==
    /\ Endianness = BigEndian
    /\ loc = "fetch" /\ err = Nil /\ PC = 3
    /\ instruction = [Opcode |-> OpcodeLDXH, DstSrc |-> 42, Offset |-> -4,
                      Immediate |-> 0]
    /\ PreviousInstruction.Opcode = OpcodeSTXH
    /\ PreviousInstruction.Offset = -4
    /\ GPR[1] = BitsOf(4660, 16)
    /\ GPR[2] = BitsOf(4660, 16)

\* C6: the program [mov r1, 5; add64 r1, 3; exit] ends by Exit with r1 = 8.
C6_EndToEndALU ==
    (/\ program = Assemble(Endianness,
                           <<Ins(OpcodeMOVDSTIMM, 1, 0, 0, 5),
                             Ins(OpcodeADDIMM, 1, 0, 0, 3),
                             Ins(OpcodeEXIT, 0, 0, 0, 0)>>)
     /\ loc = "done")
    => (err = ErrExit /\ GPR[1] = BitsOf(8, 8))

\* C7: with a shift count n in 0..63, arsh stores the sign-filling shift of
\* the destination register and rsh the zero-filling one: bit i of the
\* result is bit i+n of the operand, and above it the sign bit (arsh) or
\* zero (rsh).
C7_ArithmeticVsLogicalShift ==
    [][(/\ loc = "execute"
        /\ instruction.Opcode \in {OpcodeARSHIMM, OpcodeRSHIMM}
        /\ ValidRegister(Dst)
        /\ instruction.Immediate \in 0..63)
       => (/\ err' = Nil
           /\ \A i \in 0..63 :
                (i \in GPR'[Dst]) <=>
                    IF i + instruction.Immediate <= 63
                    THEN (i + instruction.Immediate) \in GPR[Dst]
                    ELSE (instruction.Opcode = OpcodeARSHIMM /\ 63 \in GPR[Dst]))]_vars

\* C7 happens: mov r1, -8; arsh r1, 1 has run and r1 holds the pattern of
\* -4 (all bits set but the two lowest).
C7_Witness ==
    /\ loc = "fetch" /\ err = Nil /\ PC = 2
    /\ instruction.Opcode = OpcodeARSHIMM /\ instruction.Immediate = 1
    /\ Dst = 1
    /\ PreviousInstruction.Opcode = OpcodeMOVDSTIMM
    /\ PreviousInstruction.Immediate = -8
    /\ GPR[1] = 2..63

\* C8: lsh and rsh with any immediate n shift by n mod 64 and do not fault.
C8_ShiftModuloWidth ==
    [][(/\ loc = "execute"
        /\ instruction.Opcode \in {OpcodeLSHIMM, OpcodeRSHIMM}
        /\ ValidRegister(Dst))
       => (/\ err' = Nil
           /\ LET n == instruction.Immediate % 64 IN
              GPR'[Dst] = IF instruction.Opcode = OpcodeLSHIMM
                          THEN {i + n : i \in GPR[Dst]} \cap (0..63)
                          ELSE {i - n : i \in GPR[Dst]} \cap (0..63))]_vars

C10_FailClosed ==
    [][(/\ loc = "execute"
        /\ instruction.Opcode \notin Implemented)
       => (err' \in Panics /\ loc' = "done")]_vars

\* C11: once Execute has returned the exit error, or Fetch or Execute has
\* failed, the run is over: registers, stack, PC and the reader position
\* never change again and main stays where it stopped.
C11_TerminalStates ==
    [][(err # Nil)
       => (/\ GPR' = GPR /\ Stack' = Stack /\ PC' = PC
           /\ Program' = Program /\ loc' = loc /\ err' = err)]_vars

\* C11 happens: a run stopped by exit with a whole instruction still unread
\* in the stream.
C11_Witness ==
    /\ loc = "done" /\ err = ErrExit
    /\ instruction.Opcode = OpcodeEXIT
    /\ Len(program) - Program >= 8

\* C12: the run that executes Exit ends with a signal that main does not
\* treat as an error and that differs from the outcome of every fault.
C12_ExitIsNotAnError ==
    (loc = "done" /\ instruction.Opcode = OpcodeEXIT /\ err = ErrExit)
    => (/\ ~Fatal(err)
        /\ \A e \in Panics \cup {ErrEOF, ErrUnexpectedEOF} :
               ExitStatus(err) # ExitStatus(e))

\* The 8-byte word that starts k bytes into the stream, as Fetch decodes it.
WordAt(k) == ReadInstruction(Endianness, SubSeq(program, k + 1, k + 8))

\* C13: a Fetch that finds the load-64-bit-immediate opcode followed by a
\* continuation word (zero but for its immediate) consumes both words as one
\* instruction.
C13_WideImmediate ==
    [][(/\ loc = "fetch"
        /\ Len(program) - Program >= 16
        /\ WordAt(Program).Opcode = OpcodeLDDW
        /\ WordAt(Program + 8).Opcode = 0
        /\ WordAt(Program + 8).DstSrc = 0
        /\ WordAt(Program + 8).Offset = 0)
       => (err' = Nil /\ Program' = Program + 16)]_vars

\* C14: executing an instruction whose dst or src register id is above 10
\* is a fault, whatever the opcode, and changes no register and no stack
\* byte.  (Any panic is taken for the fault here; the claim names the one
\* of the invalid register.)
C14_InvalidRegisterFaults ==
    [][(/\ loc = "execute"
        /\ (~ValidRegister(Dst) \/ ~ValidRegister(Src)))
       => (err' \in Panics /\ GPR' = GPR /\ Stack' = Stack)]_vars

\* C15: a Fetch with fewer than 8 bytes left in the stream returns an error
\* and no instruction, ends the run, and leaves PC, registers and stack as
\* they were.
C15_TruncatedStream ==
    [][(loc = "fetch" /\ Len(program) - Program < 8)
       => (/\ err' \in {ErrEOF, ErrUnexpectedEOF}
           /\ instruction' = NoInstruction
           /\ loc' = "done"
           /\ PC' = PC /\ GPR' = GPR /\ Stack' = Stack)]_vars

\* C15 happens: after one instruction, Fetch found three bytes and failed.
C15_Witness ==
    /\ loc = "done" /\ err = ErrUnexpectedEOF
    /\ instruction = NoInstruction
    /\ Len(program) = 11 /\ Program = 11
    /\ PC = 1

\* The ALU-class opcodes Execute has a case for, and bit 3 of the opcode main
\* holds.
AluImplemented ==
    {OpcodeMOVDSTIMM, OpcodeLSHIMM, OpcodeRSHIMM, OpcodeARSHIMM}
SourceModeBit == (instruction.Opcode \div 8) % 2

\* The register a shift by n leaves, bit by bit: bit i comes from bit i-n
\* (lsh) or bit i+n (rsh, arsh) of v; past the top, arsh repeats the sign.
ShiftedBy(op, v, n) ==
    {i \in 0..63 :
        IF op = OpcodeLSHIMM THEN i >= n /\ (i - n) \in v
        ELSE IF i + n <= 63 THEN (i + n) \in v
        ELSE op = OpcodeARSHIMM /\ 63 \in v}

C17_MovSignExtends ==
    [][(/\ loc = "execute"
        /\ instruction.Opcode = OpcodeMOVDSTIMM
        /\ ValidRegister(Dst))
       => (/\ err' = Nil
           /\ \A i \in 0..63 :
                (i \in GPR'[Dst]) <=>
                    IF i <= 30
                    THEN (instruction.Immediate \div Pow2(i)) % 2 = 1
                    ELSE instruction.Immediate < 0)]_vars

\* C17 happens: mov r2, -2 has run and r2 holds all bits but the lowest.
C17_Witness ==
    /\ loc = "fetch" /\ err = Nil
    /\ instruction.Opcode = OpcodeMOVDSTIMM
    /\ instruction.Immediate = -2
    /\ Dst = 2
    /\ GPR[2] = 1..63

\* C18: executing mov-imm, lsh, rsh or arsh changes no register but the
\* destination, no stack byte and not the PC.
C18_AluFrame ==
    [][(/\ loc = "execute"
        /\ instruction.Opcode \in AluImplemented)
       => (/\ \A r \in Registers \ {Dst} : GPR'[r] = GPR[r]
           /\ Stack' = Stack
           /\ PC' = PC)]_vars

\* C18 happens: mov r1, 5; lsh r1, 4 has run, r1 holds 80 and r10 still
\* holds StackSize.
C18_Witness ==
    /\ loc = "fetch" /\ err = Nil /\ PC = 2
    /\ instruction.Opcode = OpcodeLSHIMM /\ instruction.Immediate = 4
    /\ Dst = 1
    /\ GPR[1] = {4, 6}
    /\ GPR[10] = {9}

\* C19: a stxh or stxdw whose bytes [addr, addr + size) all lie in the stack
\* succeeds and leaves there the low size bytes of the source register in
\* the configured byte order (little-endian: least significant byte at addr;
\* big-endian: most significant byte at addr); every other stack byte and
\* every register stay as they were.
C19_StoreEffect ==
    [][(/\ loc = "execute"
        /\ instruction.Opcode \in {OpcodeSTXH, OpcodeSTXDW}
        /\ ValidRegister(Dst) /\ ValidRegister(Src)
        /\ 0 <= StoreStart /\ StoreStart + StoreSize <= StackSize)
       => (/\ err' = Nil
           /\ GPR' = GPR
           /\ \A a \in 0..(StackSize - 1) :
                Stack'[a] =
                    IF StoreStart <= a /\ a < StoreStart + StoreSize
                    THEN ByteOf(GPR[Src],
                                IF Endianness = LittleEndian
                                THEN a - StoreStart
                                ELSE StoreSize - 1 - (a - StoreStart))
                    ELSE Stack[a])]_vars

\* C19 happens: under big-endian, stxdw [r10-8], r1 has run with r1 = 0x1234
\* and the low-order bytes 0x12, 0x34 sit at the top of the stack.
C19_Witness ==
    /\ loc = "fetch" /\ err = Nil
    /\ Endianness = BigEndian
    /\ instruction.Opcode = OpcodeSTXDW /\ instruction.Offset = -8
    /\ Dst = 10 /\ Src = 1
    /\ GPR[1] = BitsOf(4660, 16)
    /\ Stack[StackSize - 1] = 52 /\ Stack[StackSize - 2] = 18
    /\ Stack[StackSize - 8] = 0

\* C20: only Fetch changes PC: a successful Fetch adds exactly 1, a failed
\* Fetch, Disassemble and Execute leave it alone; so PC always equals the
\* number of successful fetches, i.e. of whole 8-byte words read so far.
C20_ProgramCounterAuthority ==
    /\ [](PC * 8 = Program - (Program % 8))
    /\ [][/\ (loc = "fetch" /\ Len(program) - Program >= 8) => PC' = PC + 1
          /\ (loc = "fetch" /\ Len(program) - Program < 8) => PC' = PC
          /\ loc # "fetch" => PC' = PC]_vars

\* C20 happens: three words were fetched and executed (Disassemble ran too)
\* and the fourth Fetch failed at the end of the stream; PC is 3.
C20_Witness ==
    /\ loc = "done" /\ err = ErrEOF
    /\ flagVerbose
    /\ Program = 24 /\ PC = 3

\* The machine and main's loop variables, without the verbose flag.
Machine(gpr, stack, offset, pc, instr, e) ==
    [GPR |-> gpr, Stack |-> stack, Program |-> offset, PC |-> pc,
     instruction |-> instr, err |-> e]

\* One call of main's loop with *flagVerbose false: Fetch when fetching,
\* Execute otherwise; nothing once log.Fatal or a panic ended the process.
QuietStep(order, prog, m, fetching) ==
    IF m.err # Nil THEN m
    ELSE IF fetching
    THEN LET left == Len(prog) - m.Program IN
         IF left < 8
         THEN [m EXCEPT !.err = IF left = 0 THEN ErrEOF ELSE ErrUnexpectedEOF,
                        !.Program = Len(prog),
                        !.instruction = NoInstruction]
         ELSE [m EXCEPT !.instruction =
                            ReadInstruction(order,
                                SubSeq(prog, m.Program + 1, m.Program + 8)),
                        !.Program = m.Program + 8,
                        !.PC = m.PC + 1]
    ELSE LET out == ExecuteInstr(order, m.GPR, m.Stack, m.instruction) IN
         [m EXCEPT !.GPR = out.GPR, !.Stack = out.Stack, !.err = out.err]

\* The machine after n calls (Fetch, Execute, Fetch, ...) of the run of prog
\* with *flagVerbose false.
RECURSIVE QuietRun(_, _, _)
QuietRun(order, prog, n) ==
    IF n = 0
    THEN Machine([r \in Registers |->
                      IF r = 10 THEN BitsOf(StackSize, 16) ELSE {}],
                 [a \in 0..(StackSize - 1) |-> 0], 0, 0, NoInstruction, Nil)
    ELSE QuietStep(order, prog, QuietRun(order, prog, n - 1), n % 2 = 1)

\* The Fetch and Execute calls made so far (a process that has ended makes
\* no further call, one more is counted for it).
CallsMade ==
    IF loc = "fetch" THEN 2 * PC
    ELSE IF loc = "done" THEN 2 * PC + 1
    ELSE 2 * PC - 1

\* C21: with verbose on, every fetched instruction is disassembled after its
\* Fetch and before its Execute, Disassemble changes no register, stack
\* byte, PC, reader position or instruction, and the machine after each
\* Fetch and Execute is the one the run of the same program with verbose off
\* has after as many calls.
C21_TraceIsPureObserver ==
    /\ [](flagVerbose =>
            Machine(GPR, Stack, Program, PC, instruction, err)
                = QuietRun(Endianness, program, CallsMade))
    /\ [][flagVerbose =>
            /\ (loc = "fetch" /\ err' = Nil) => loc' = "disassemble"
            /\ loc' = "execute" => loc = "disassemble"
            /\ loc = "disassemble" =>
                 /\ loc' = "execute"
                 /\ GPR' = GPR /\ Stack' = Stack /\ PC' = PC
                 /\ Program' = Program /\ instruction' = instruction
                 /\ err' = err]_vars

\* C21 happens: with verbose on, mov r1, 5; lsh r1, 4 were fetched,
\* disassembled and executed, and r1 holds 80 as in the quiet run.
C21_Witness ==
    /\ flagVerbose
    /\ loc = "fetch" /\ err = Nil /\ PC = 2
    /\ instruction.Opcode = OpcodeLSHIMM /\ instruction.Immediate = 4
    /\ GPR[1] = {4, 6}
    /\ QuietRun(Endianness, program, 4).GPR[1] = {4, 6}

\* C22: the run of a program of L bytes always stops (by exit, by a fault or
\* by a failed Fetch): the reader never moves backward, a successful Fetch
\* moves it on by 8 bytes, at most L \div 8 fetches succeed, and the loop
\* eventually ends.
C22_RunTerminates ==
    /\ [](PC <= Len(program) \div 8)
    /\ [][/\ Program' >= Program
          /\ PC' > PC => Program' = Program + 8]_vars
    /\ <>(loc = "done")

\* C22 happens: a program of two words ran to the end of its stream; both
\* fetches succeeded and the third stopped the loop.
C22_Witness ==
    /\ loc = "done" /\ err = ErrEOF
    /\ ~flagVerbose
    /\ Len(program) = 16
    /\ PC = Len(program) \div 8
====
